---- MODULE Spec2Model ----
(***************************************************************************)
(* GlobalDataProvider (frontend/src/hooks/useGlobalData.js): the cache of  *)
(* the portfolio data, its staleness evaluation (the useEffect callback),  *)
(* the fetch sequence fetchGlobalData, refetch() and the progress gate.    *)
(*                                                                         *)
(* The React state of the provider is the state of the model.  A handler   *)
(* (the continuation of a fetch after its await, refetch, the progress     *)
(* callback) is one action; its state updates are batched into one commit. *)
(* A commit that changes a dependency of the effect ([globalData,          *)
(* lastFetch]) leaves the effect pending, and the effect callback is an    *)
(* action of its own, run before the next handler.  The clock may advance  *)
(* between any two steps, also between a commit and its effect.            *)
(***************************************************************************)
EXTENDS Integers, FiniteSets, Sequences, TLC

\* ---------------------------------------------------------------- bounds
MaxCalls == 4       \* Data Service calls in one run
MaxRefetch == 1     \* refetch() invocations in one run
MaxTicks == 1       \* clock advances in one run

\* ------------------------------------------------------- program constants
CACHE_DURATION == 30 * 60 * 1000

\* useState(null): no data yet.  An aggregate is an object; the model keeps
\* its identity (the same number is the same object reference).
NullData == 0
Aggregates == {1, 2}

\* The top-level sections of an aggregate, in Object.keys order, each with its
\* value (an object or array of the schema; a section the store has no row for
\* is null).
NullSection == "null"
Undefined == "undefined"
Content(d) ==
  IF d = 1
  THEN << <<"home", "home1">>, <<"about", "about1">>, <<"projects", "projects1">> >>
  ELSE IF d = 2
  THEN << <<"home", "home2">>, <<"contact", "contact2">>, <<"gallery", NullSection>>,
          <<"awards", "awards2">> >>
  ELSE << >>
TopLevelKeys(d) == {Content(d)[i][1] : i \in 1..Len(Content(d))}
OwnValue(d, name) == Content(d)[CHOOSE i \in 1..Len(Content(d)) : Content(d)[i][1] = name][2]

\* An aggregate is a plain object: a property read that finds no own key goes
\* on to Object.prototype, where "constructor" is the Object function.
InheritedNames == {"constructor"}
InheritedValue(name) == "Object.prototype." \o name

\* Names a consumer may pass to useSectionData: sections of the aggregates, a
\* name that is a section of neither, and a name Object.prototype defines.
SectionNames ==
  {"home", "about", "projects", "contact", "gallery", "awards", "blog", "constructor"}

\* useState(null) of error, and the messages a rejected call may carry.
NullError == "null"
Messages == {"network unreachable", "timeout"}

\* Date.now() at mount: epoch milliseconds, beyond CACHE_DURATION.
StartTime == CACHE_DURATION + 1

\* The amounts the clock advances by: the cache duration, and a millisecond
\* more than it.
Delays == {CACHE_DURATION, CACHE_DURATION + 1}

VARIABLES
  globalData,     \* useState(null)
  loading,        \* useState(true)
  error,          \* useState(null)
  lastFetch,      \* useState(0)
  isInitialLoad,  \* useState(true)
  showProgress,   \* useState(true)
  effectPending,  \* the useEffect callback is due (mount, or a dependency changed)
  inflight,       \* the fetch sequences suspended at their await
  now,            \* Date.now()
  serviceCalls,   \* calls of portfolioService.getPortfolioDataOptimized so far
  completions,    \* fetch sequences that ran to their finally block
  refetchCalls,   \* refetch() invocations so far
  ticks,          \* clock advances so far
  lastEvent,      \* the handler that made the last step
  last,           \* the last completed fetch sequence
  refetchArmed,   \* refetch() was invoked since the last staleness evaluation
  sinceFail,      \* a fetch sequence failed and refetch() was not invoked since
  preloaded,      \* the imagePreloader calls made by the last step, in order
  progressDone    \* the progress indicator has invoked its completion callback

cache == <<globalData, loading, error, lastFetch, isInitialLoad>>
history == <<serviceCalls, completions, refetchCalls, ticks, lastEvent, last,
             refetchArmed, sinceFail, preloaded, progressDone>>
vars == <<globalData, loading, error, lastFetch, isInitialLoad, showProgress,
          effectPending, inflight, now, serviceCalls, completions, refetchCalls,
          ticks, lastEvent, last, refetchArmed, sinceFail, preloaded, progressDone>>

NoCompletion ==
  [kind |-> "none", id |-> 0, result |-> NullData, msg |-> NullError, time |-> 0,
   data0 |-> NullData, lastFetch0 |-> 0, preData |-> NullData,
   preLastFetch |-> 0, byRefetch |-> FALSE]

Init ==
  /\ globalData = NullData
  /\ loading = TRUE
  /\ error = NullError
  /\ lastFetch = 0
  /\ isInitialLoad = TRUE
  /\ showProgress = TRUE
  /\ effectPending = TRUE
  /\ inflight = {}
  /\ now = StartTime
  /\ serviceCalls = 0
  /\ completions = 0
  /\ refetchCalls = 0
  /\ ticks = 0
  /\ lastEvent = "init"
  /\ last = NoCompletion
  /\ refetchArmed = FALSE
  /\ sinceFail = FALSE
  /\ preloaded = << >>
  /\ progressDone = FALSE

\* ------------------------------------------------ the staleness evaluation

shouldFetchInclusive(data, lf, t) == data = NullData \/ (t - lf) >= CACHE_DURATION

\* const shouldFetch = !globalData || (Date.now() - lastFetch) > CACHE_DURATION
shouldFetch(data, lf, t) == data = NullData \/ (t - lf) > CACHE_DURATION

\* The dependency array [globalData, lastFetch, CACHE_DURATION]: the effect is
\* due again when a commit changes globalData or lastFetch (Object.is).
DepsChanged(data, lf) == data # globalData \/ lf # lastFetch

\* fetchGlobalData up to its await: setLoading(true), setError(null), the
\* critical-image preload and the call of the Data Service.
\* FetchStart with the critical-image preload moved behind the await.
FetchStartPreloadsLate ==
  /\ serviceCalls < MaxCalls
  /\ loading' = TRUE
  /\ error' = NullError
  /\ serviceCalls' = serviceCalls + 1
  /\ inflight' = inflight \cup
       {[id |-> serviceCalls + 1, data0 |-> globalData, lastFetch0 |-> lastFetch,
         byRefetch |-> refetchArmed, critical |-> FALSE]}
  /\ preloaded' = << >>
  /\ lastEvent' = "fetch"
  /\ UNCHANGED <<globalData, lastFetch, isInitialLoad>>

FetchStart ==
  /\ serviceCalls < MaxCalls
  /\ loading' = TRUE
  /\ error' = NullError
  /\ serviceCalls' = serviceCalls + 1
  /\ inflight' = inflight \cup
       {[id |-> serviceCalls + 1, data0 |-> globalData, lastFetch0 |-> lastFetch,
         byRefetch |-> refetchArmed, critical |-> TRUE]}
  /\ preloaded' = << [op |-> "critical", arg |-> "", seq |-> serviceCalls + 1] >>
  /\ lastEvent' = "fetch"
  /\ UNCHANGED <<globalData, lastFetch, isInitialLoad>>

\* The else branch: 'Using cached global data'.
UseCached ==
  /\ loading' = FALSE
  /\ isInitialLoad' = FALSE
  /\ lastEvent' = "cached"
  /\ preloaded' = << >>
  /\ UNCHANGED <<globalData, error, lastFetch, serviceCalls, inflight>>

\* The useEffect callback.
\* RunEffect with an in-progress guard: a stale cache starts no second sequence
\* while one is in flight.
RunEffectGuarded ==
  /\ effectPending
  /\ IF shouldFetch(globalData, lastFetch, now)
     THEN IF inflight = {}
          THEN FetchStart
          ELSE /\ lastEvent' = "guarded"
               /\ preloaded' = << >>
               /\ UNCHANGED <<cache, serviceCalls, inflight>>
     ELSE UseCached
  /\ effectPending' = FALSE
  /\ refetchArmed' = FALSE
  /\ UNCHANGED <<showProgress, now, completions, refetchCalls, ticks, last, sinceFail,
                 progressDone>>

RunEffect ==
  /\ effectPending
  /\ IF shouldFetch(globalData, lastFetch, now) THEN FetchStart ELSE UseCached
  /\ effectPending' = FALSE
  /\ refetchArmed' = FALSE
  /\ UNCHANGED <<showProgress, now, completions, refetchCalls, ticks, last, sinceFail,
                 progressDone>>

\* ------------------------------------------------------ the fetch sequence

\* Object.keys(data).forEach(section => { if (section !== 'home' &&
\* section !== 'contact') imagePreloader.preloadSectionImages(section) })
RECURSIVE SectionPreloads(_, _, _)
SectionPreloads(content, i, id) ==
  IF i > Len(content) THEN << >>
  ELSE (IF content[i][1] # "home" /\ content[i][1] # "contact"
        THEN << [op |-> "section", arg |-> content[i][1], seq |-> id] >>
        ELSE << >>) \o SectionPreloads(content, i + 1, id)

\* Preloads without the if (data) guard.
PreloadsUnguarded(d, id) ==
  << [op |-> "data", arg |-> "", seq |-> id] >> \o SectionPreloads(Content(d), 1, id)

\* if (data) { imagePreloader.preloadDataImages(data); ...forEach... }
Preloads(d, id) ==
  IF d # NullData
  THEN << [op |-> "data", arg |-> "", seq |-> id] >> \o SectionPreloads(Content(d), 1, id)
  ELSE << >>

Completed(s, kind, d, m) ==
  [kind |-> kind, id |-> s.id, result |-> d, msg |-> m, time |-> now,
   data0 |-> s.data0, lastFetch0 |-> s.lastFetch0, preData |-> globalData,
   preLastFetch |-> lastFetch, byRefetch |-> s.byRefetch]

FetchResolveKeepsLoading(s, d) ==
  /\ s \in inflight
  /\ ~effectPending
  /\ d = NullData => serviceCalls < MaxCalls
  /\ globalData' = d
  /\ lastFetch' = now
  /\ isInitialLoad' = FALSE
  /\ effectPending' = DepsChanged(d, now)
  /\ inflight' = inflight \ {s}
  /\ completions' = completions + 1
  /\ lastEvent' = "resolve"
  /\ last' = Completed(s, "resolve", d, NullError)
  /\ preloaded' = Preloads(d, s.id)
  /\ UNCHANGED <<loading, error, showProgress, now, serviceCalls, refetchCalls, ticks,
                 refetchArmed, sinceFail, progressDone>>

\* FetchResolve without setIsInitialLoad(false).
FetchResolveKeepsInitialLoad(s, d) ==
  /\ s \in inflight
  /\ ~effectPending
  /\ d = NullData => serviceCalls < MaxCalls
  /\ globalData' = d
  /\ lastFetch' = now
  /\ loading' = FALSE
  /\ effectPending' = DepsChanged(d, now)
  /\ inflight' = inflight \ {s}
  /\ completions' = completions + 1
  /\ lastEvent' = "resolve"
  /\ last' = Completed(s, "resolve", d, NullError)
  /\ preloaded' = Preloads(d, s.id)
  /\ UNCHANGED <<error, isInitialLoad, showProgress, now, serviceCalls, refetchCalls, ticks,
                 refetchArmed, sinceFail, progressDone>>

\* The await returns d: setGlobalData(data), setLastFetch(Date.now()),
\* setIsInitialLoad(false), and setLoading(false) in the finally block.
FetchResolve(s, d) ==
  /\ s \in inflight
  /\ ~effectPending
  /\ d = NullData => serviceCalls < MaxCalls
  /\ globalData' = d
  /\ lastFetch' = now
  /\ isInitialLoad' = FALSE
  /\ loading' = FALSE
  /\ effectPending' = DepsChanged(d, now)
  /\ inflight' = inflight \ {s}
  /\ completions' = completions + 1
  /\ lastEvent' = "resolve"
  /\ last' = Completed(s, "resolve", d, NullError)
  /\ preloaded' = Preloads(d, s.id)
  /\ UNCHANGED <<error, showProgress, now, serviceCalls, refetchCalls, ticks,
                 refetchArmed, sinceFail, progressDone>>

RejectFrame(s, m) ==
  /\ s \in inflight
  /\ ~effectPending
  /\ inflight' = inflight \ {s}
  /\ completions' = completions + 1
  /\ lastEvent' = "reject"
  /\ last' = Completed(s, "reject", NullData, m)
  /\ sinceFail' = TRUE
  /\ preloaded' = << >>
  /\ UNCHANGED <<showProgress, now, serviceCalls, refetchCalls, ticks, refetchArmed,
                 progressDone>>

FetchRejectKeepsInitialLoad(s, m) ==
  /\ RejectFrame(s, m)
  /\ error' = m
  /\ loading' = FALSE
  /\ effectPending' = FALSE
  /\ UNCHANGED <<globalData, lastFetch, isInitialLoad>>

FetchRejectClearsData(s, m) ==
  /\ RejectFrame(s, m)
  /\ error' = m
  /\ isInitialLoad' = FALSE
  /\ loading' = FALSE
  /\ globalData' = NullData
  /\ effectPending' = DepsChanged(NullData, lastFetch)
  /\ UNCHANGED lastFetch

FetchRejectKeepsLoading(s, m) ==
  /\ RejectFrame(s, m)
  /\ error' = m
  /\ isInitialLoad' = FALSE
  /\ effectPending' = FALSE
  /\ UNCHANGED <<globalData, lastFetch, loading>>

FetchRejectStampsLastFetch(s, m) ==
  /\ RejectFrame(s, m)
  /\ serviceCalls < MaxCalls
  /\ error' = m
  /\ isInitialLoad' = FALSE
  /\ loading' = FALSE
  /\ lastFetch' = now
  /\ effectPending' = DepsChanged(globalData, now)
  /\ UNCHANGED globalData

\* The await throws an error with message m: setError(err.message),
\* setIsInitialLoad(false), and setLoading(false) in the finally block.
FetchReject(s, m) ==
  /\ RejectFrame(s, m)
  /\ error' = m
  /\ isInitialLoad' = FALSE
  /\ loading' = FALSE
  /\ effectPending' = FALSE
  /\ UNCHANGED <<globalData, lastFetch>>

\* ------------------------------------------------------- consumers' handlers

\* The render gate with "or" in place of "and".
RendersProgressEither == isInitialLoad \/ showProgress

\* if (isInitialLoad && showProgress) return <LoadingProgress .../>
RendersProgress == isInitialLoad /\ showProgress

\* The provider renders its children (and hands them the context value) unless
\* isInitialLoad && showProgress.
ChildrenRendered == ~RendersProgress

\* data?.[sectionName]: undefined when data is null, else the own or inherited
\* property of that name, else undefined.
Lookup(d, name) ==
  IF d = NullData THEN Undefined
  ELSE IF name \in TopLevelKeys(d) THEN OwnValue(d, name)
  ELSE IF name \in InheritedNames THEN InheritedValue(name)
  ELSE Undefined

Truthy(v) == v \notin {Undefined, NullSection}

\* useSectionData(sectionName): { data: data?.[sectionName] || null, loading, error }
useSectionData(name) ==
  [data |-> IF Truthy(Lookup(globalData, name)) THEN Lookup(globalData, name)
            ELSE NullSection,
   loading |-> loading,
   error |-> error]

\* refetch: () => { setLastFetch(0) }.  A setter called with the value the
\* state already has changes nothing, so no effect becomes due.
Refetch ==
  /\ ChildrenRendered
  /\ ~effectPending
  /\ refetchCalls < MaxRefetch
  /\ lastFetch # 0 => serviceCalls < MaxCalls
  /\ lastFetch' = 0
  /\ effectPending' = DepsChanged(globalData, 0)
  /\ refetchCalls' = refetchCalls + 1
  /\ refetchArmed' = TRUE
  /\ sinceFail' = FALSE
  /\ lastEvent' = "refetch"
  /\ preloaded' = << >>
  /\ UNCHANGED <<globalData, loading, error, isInitialLoad, showProgress, inflight,
                 now, serviceCalls, completions, ticks, last, progressDone>>

\* handleProgressComplete, the onComplete of the rendered LoadingProgress.
ProgressComplete ==
  /\ RendersProgress
  /\ showProgress' = FALSE
  /\ progressDone' = TRUE
  /\ lastEvent' = "progress"
  /\ preloaded' = << >>
  /\ UNCHANGED <<cache, effectPending, inflight, now, serviceCalls, completions,
                 refetchCalls, ticks, last, refetchArmed, sinceFail>>

\* Tick with a timer that makes the evaluation due once the cache has expired.
TickReevaluates(delta) ==
  /\ ticks < MaxTicks
  /\ serviceCalls < MaxCalls
  /\ now' = now + delta
  /\ ticks' = ticks + 1
  /\ effectPending' =
       (effectPending \/ (globalData # NullData /\ (now + delta - lastFetch) > CACHE_DURATION))
  /\ lastEvent' = "tick"
  /\ preloaded' = << >>
  /\ UNCHANGED <<cache, showProgress, inflight, serviceCalls,
                 completions, refetchCalls, last, refetchArmed, sinceFail, progressDone>>

\* Date.now() advances.  (With the call budget used up, the clock does not make
\* a pending evaluation stale.)
Tick(delta) ==
  /\ ticks < MaxTicks
  /\ (effectPending /\ serviceCalls = MaxCalls)
        => ~shouldFetch(globalData, lastFetch, now + delta)
  /\ now' = now + delta
  /\ ticks' = ticks + 1
  /\ lastEvent' = "tick"
  /\ preloaded' = << >>
  /\ UNCHANGED <<cache, showProgress, effectPending, inflight, serviceCalls,
                 completions, refetchCalls, last, refetchArmed, sinceFail, progressDone>>

\* The Data Service is a collaborator outside this module: a call resolves with
\* an aggregate or with an absent value (the code tests `if (data)`), or it
\* rejects with a message; calls are answered in any order.
Resolve == \E s \in inflight : \E d \in Aggregates \cup {NullData} : FetchResolve(s, d)
Reject == \E s \in inflight : \E m \in Messages : FetchReject(s, m)
Advance == \E delta \in Delays : Tick(delta)

Next ==
  \/ RunEffect
  \/ Resolve
  \/ Reject
  \/ Refetch
  \/ ProgressComplete
  \/ Advance

Spec == Init /\ [][Next]_vars

\* The effect callback runs once it is due, and the Data Service answers: a
\* call that is outstanding eventually resolves or rejects.
LiveSpec ==
  /\ Spec
  /\ WF_vars(RunEffect)
  /\ WF_vars(Resolve \/ Reject)

TypeOK ==
  /\ globalData \in Aggregates \cup {NullData}
  /\ loading \in BOOLEAN
  /\ error \in Messages \cup {NullError}
  /\ lastFetch \in Nat
  /\ isInitialLoad \in BOOLEAN
  /\ showProgress \in BOOLEAN
  /\ effectPending \in BOOLEAN
  /\ now \in Nat
  /\ serviceCalls \in 0..MaxCalls
  /\ \A s \in inflight : s.id \in 1..serviceCalls
  /\ progressDone \in BOOLEAN
  /\ Len(preloaded) <= 1 + Cardinality(SectionNames)
  /\ \A i \in 1..Len(preloaded) :
       /\ preloaded[i].op \in {"critical", "data", "section"}
       /\ preloaded[i].seq \in 1..serviceCalls
\* A pending evaluation can always run: the call budget is kept by the handlers.
EffectCanRun ==
  (effectPending /\ shouldFetch(globalData, lastFetch, now)) => serviceCalls < MaxCalls

\* ------------------------------------------------------------------ steps
EffectStep == effectPending /\ ~effectPending'
CompletionStep == completions' = completions + 1
RefetchStep == refetchCalls' = refetchCalls + 1
CallStep == serviceCalls' = serviceCalls + 1

\* ----------------------------------------------------------------- claims

\* C1: isInitialLoad is true at mount, turns false only at the completion of
\* the first fetch sequence (success or failure), and never turns true again,
\* also not after refetch() and later fetch sequences.
C1_InitialLoadOnce ==
  /\ isInitialLoad = TRUE
  /\ [][/\ ~isInitialLoad => ~isInitialLoad'
        /\ (isInitialLoad /\ ~isInitialLoad') => (CompletionStep /\ completions = 0)
        /\ (CompletionStep /\ completions = 0) => ~isInitialLoad']_vars

C1_Witness ==
  /\ ~isInitialLoad
  /\ refetchCalls >= 1
  /\ completions >= 2
  /\ inflight # {}

\* C2: a staleness evaluation that runs with data present and
\* now - lastFetch <= CACHE_DURATION (boundary included) starts no fetch
\* sequence: the Data Service is not called.
C2_FreshCacheNoFetch ==
  [][(EffectStep /\ globalData # NullData /\ now - lastFetch <= CACHE_DURATION)
       => (serviceCalls' = serviceCalls /\ inflight' = inflight)]_vars

C2_Witness ==
  /\ lastEvent = "cached"
  /\ globalData # NullData
  /\ now - lastFetch = CACHE_DURATION

\* C3 (as claimed): every refetch() sets lastFetch to 0, and the first staleness
\* evaluation that runs after a refetch() starts a new fetch sequence.
C3_RefetchForcesFetch ==
  [][/\ RefetchStep => lastFetch' = 0
     /\ (EffectStep /\ refetchArmed) => CallStep]_vars

\* C4 (as claimed): with the most recent fetch sequence failed and none in
\* flight, refetch() makes a staleness evaluation due, which (lastFetch being 0)
\* starts a new fetch sequence.
C4_RefetchRetriesAfterFailure ==
  [][(RefetchStep /\ last.kind = "reject" /\ inflight = {})
       => (effectPending' /\ shouldFetch(globalData', lastFetch', now'))]_vars
C6_SuccessState ==
  (lastEvent = "resolve" /\ last.result # NullData) =>
    /\ globalData = last.result
    /\ lastFetch = last.time
    /\ lastFetch # 0
    /\ error = NullError
    /\ ~loading
    /\ ~isInitialLoad

\* C7 (as claimed): refetch() changes lastFetch only; data changes only when a
\* fetch sequence resolves, to the response; and while a sequence that a
\* refetch() started with data present is in flight, loading is true and the
\* data is still the old one.
C7_RefetchKeepsData ==
  [][/\ RefetchStep => UNCHANGED <<globalData, loading, error, isInitialLoad>>
     /\ globalData' # globalData => (lastEvent' = "resolve" /\ globalData' = last'.result)
     /\ \A s \in inflight' :
          (s.byRefetch /\ s.data0 # NullData) => (loading' /\ globalData' = s.data0)]_vars

\* C8 (as claimed): loading = true implies that a fetch sequence is in flight.
C8_LoadingImpliesInFlight == loading => inflight # {}

\* C8 (amended): once the staleness evaluation of the mount has run,
\* loading = true implies that a fetch sequence is in flight.
C8_LoadingImpliesInFlightAfterMount ==
  (loading /\ serviceCalls > 0) => inflight # {}

C8_Witness ==
  /\ loading
  /\ globalData # NullData
  /\ Cardinality(inflight) = 1
  /\ completions >= 2

\* C9: every fetch sequence ends with loading = false, on success and on
\* failure, and (the Data Service answering every call) every started fetch
\* sequence ends.
C9_SequenceEndsLoadingFalse ==
  /\ [][CompletionStep => ~loading']_vars
  /\ \A i \in 1..MaxCalls :
       (\E s \in inflight : s.id = i)
          ~> ((\A s \in inflight : s.id # i) /\ ~loading)

C9_Witness ==
  /\ lastEvent = "reject"
  /\ completions >= 2
  /\ ~loading
  /\ inflight = {}

C11_PreloadOrder ==
  /\ \A s \in inflight : s.critical
  /\ lastEvent = "fetch" =>
       preloaded = << [op |-> "critical", arg |-> "", seq |-> serviceCalls] >>
  /\ \A i \in 1..Len(preloaded) :
       preloaded[i].op \in {"data", "section"} =>
         /\ lastEvent = "resolve"
         /\ last.kind = "resolve"
         /\ last.result # NullData
         /\ preloaded[i].seq = last.id
  /\ lastEvent = "reject" => preloaded = << >>

\* A sequence completed successfully and started its data and section preloads
\* while another sequence's call was still outstanding.
C11_Witness ==
  /\ lastEvent = "resolve"
  /\ Len(preloaded) >= 2
  /\ preloaded[1].seq = last.id
  /\ \E s \in inflight : s.critical /\ s.id # last.id

\* Names of the section-image preloads made by the last step.
SectionsPreloaded == {preloaded[i].arg : i \in {j \in 1..Len(preloaded) : preloaded[j].op = "section"}}

\* C16: a successful fetch that returned present data invokes the data-image
\* preload once, first, and then the section-image preload exactly once for
\* each top-level key of the returned data other than "home" and "contact"
\* and for no other name; a fetch that returned absent data invokes neither.
C16_PreloadsPerKey ==
  lastEvent = "resolve" =>
    IF last.result # NullData
    THEN /\ Len(preloaded) >= 1
         /\ preloaded[1].op = "data"
         /\ \A i \in 2..Len(preloaded) : preloaded[i].op = "section"
         /\ SectionsPreloaded = TopLevelKeys(last.result) \ {"home", "contact"}
         /\ Len(preloaded) = 1 + Cardinality(SectionsPreloaded)
    ELSE preloaded = << >>

\* A fetch returned the aggregate that has a "contact" section: its other
\* sections were preloaded, "contact" and "home" were not.
C16_Witness ==
  /\ lastEvent = "resolve"
  /\ "contact" \in TopLevelKeys(last.result)
  /\ SectionsPreloaded = {"gallery", "awards"}

\* C12: in every reachable state the provider renders the loading-progress
\* indicator instead of its children exactly when isInitialLoad is true and
\* the show-progress flag is true; the children are rendered exactly when a
\* fetch sequence has completed or the indicator's completion callback has
\* run, so each of the two alone reveals the children.
C12_RenderGate ==
  /\ RendersProgress <=> (isInitialLoad = TRUE /\ showProgress = TRUE)
  /\ ChildrenRendered <=> (completions > 0 \/ progressDone)
  /\ ChildrenRendered <=> (~isInitialLoad \/ ~showProgress)

\* The completion callback alone revealed the children: no fetch sequence has
\* completed, isInitialLoad is still true.
C12_Witness ==
  /\ lastEvent = "progress"
  /\ progressDone
  /\ completions = 0
  /\ isInitialLoad
  /\ ChildrenRendered

\* C13: for every cache state and every section name, names that are not keys
\* of data included, the section accessor called under the provider returns
\* the section's value when data is present and has that section and absent
\* otherwise, with the cache's current loading and error; before any fetch
\* completes it returns {data: absent, loading: true, error: absent}.
C13_SectionAccessor ==
  ChildrenRendered =>
    \A name \in SectionNames :
      /\ useSectionData(name) =
           [data |-> IF globalData # NullData /\ name \in TopLevelKeys(globalData)
                     THEN OwnValue(globalData, name)
                     ELSE NullSection,
            loading |-> loading,
            error |-> error]
      /\ completions = 0 =>
           useSectionData(name) =
             [data |-> NullSection, loading |-> TRUE, error |-> NullError]

\* C14: fetch sequences are not mutually exclusive.  The staleness evaluation
\* consults only data and lastFetch: whenever it finds the cache stale it
\* issues a Data Service call, whatever loading is and however many calls are
\* outstanding, so a second sequence can start while an earlier one is in
\* flight (the witness) and two calls are outstanding at once.
C14_EvaluationIgnoresInFlight ==
  [][(EffectStep /\ shouldFetch(globalData, lastFetch, now)) =>
       /\ CallStep
       /\ inflight \subseteq inflight'
       /\ Cardinality(inflight') = Cardinality(inflight) + 1]_vars

\* A sequence was just started while an earlier call is still outstanding.
C14_Witness ==
  /\ lastEvent = "fetch"
  /\ Cardinality(inflight) >= 2
  /\ \E s \in inflight : s.id = serviceCalls
  /\ \E s \in inflight : s.id < serviceCalls

\* C15: whenever the staleness evaluation finds the cache not stale it sets
\* loading = false and leaves isInitialLoad as it was: isInitialLoad is
\* already false whenever the not-stale branch is taken, so that branch never
\* performs the true-to-false transition of isInitialLoad.
C15_CachedBranchKeepsInitialLoad ==
  [][(EffectStep /\ ~shouldFetch(globalData, lastFetch, now)) =>
       /\ isInitialLoad = FALSE
       /\ isInitialLoad' = isInitialLoad
       /\ loading' = FALSE]_vars

\* The not-stale branch has just been taken.
C15_Witness ==
  /\ lastEvent = "cached"
  /\ globalData # NullData
  /\ loading = FALSE
  /\ isInitialLoad = FALSE

\* C17: in every execution the number of Data Service calls is at most 1 (the
\* mount) plus the number of refetch() invocations: the state updates of a
\* completing fetch sequence never start another fetch sequence, whatever the
\* Data Service returned.
C17_CallsBoundedByTriggers == serviceCalls <= 1 + refetchCalls

\* C18: in every reachable state in which a fetch sequence is in flight
\* loading is true: no completion of another sequence and no not-stale
\* evaluation sets loading to false while a call is outstanding.
C18_InFlightImpliesLoading == inflight # {} => loading = TRUE

\* C19: the passage of time alone changes nothing.  A step that advances the
\* clock leaves the cache state, the outstanding calls and the due evaluation
\* as they were and starts no fetch sequence; an evaluation becomes due only
\* when data or lastFetch change, and only an evaluation calls the Data
\* Service, so expired data is served with loading = false until refetch().
C19_TimeAloneChangesNothing ==
  [][/\ now' # now =>
          UNCHANGED <<cache, showProgress, inflight, serviceCalls, effectPending>>
     /\ (~effectPending /\ effectPending') =>
          (globalData' # globalData \/ lastFetch' # lastFetch)
     /\ CallStep => EffectStep]_vars

\* The clock has just passed lastFetch + CACHE_DURATION with data present: the
\* expired data is served, nothing is in flight and no evaluation is due.
C19_Witness ==
  /\ lastEvent = "tick"
  /\ globalData # NullData
  /\ (now - lastFetch) > CACHE_DURATION
  /\ lastFetch # 0
  /\ loading = FALSE
  /\ effectPending = FALSE
  /\ inflight = {}

\* C20: data is monotone in presence: once data is present it is present in
\* every later state; no refetch(), failure or later completion makes it
\* absent again.
C20_DataStaysPresent == [][globalData # NullData => globalData' # NullData]_vars

====
